---- MODULE Spec2Model ----
(***************************************************************************)
(* pybootd: the BOOTP/DHCP/PXE request engine of pybootd/pxed.py           *)
(* (BootpServer) with the configuration getters of pybootdconfig.py.       *)
(* One datagram is handled per Handle step; the maps states, ippool and    *)
(* uuidpool are the server's per-MAC state.                                *)
(***************************************************************************)
EXTENDS Integers, Sequences, FiniteSets, TLC

VARIABLES states, ippool, uuidpool, config, pc, last, handled, sent, history, parsing

vars == <<states, ippool, uuidpool, config, pc, last, handled, sent, history, parsing>>

(* ----------------------------- bounds --------------------------------- *)
MaxDatagrams == 3
MaxOptions == 3

(* ------------------------- protocol constants ------------------------- *)
BOOTP_PORT == 67
BOOTREQUEST == 1
BOOTREPLY == 2
DHCP_DISCOVER == 1
DHCP_OFFER == 2
DHCP_REQUEST == 3
DHCP_DECLINE == 4
DHCP_ACK == 5
DHCP_RELEASE == 7
DHCP_INFORM == 8
DHCP_IP_MASK == 1
DHCP_IP_GATEWAY == 3
DHCP_IP_DNS == 6
DHCP_LEASE_TIME == 51
DHCP_MSG == 53
DHCP_SERVER == 54
DHCP_END == 255
PXE_DISCOVERY_CONTROL == 6
PXE_BOOT_SERVERS == 8
PXE_BOOT_MENU == 9
PXE_MENU_PROMPT == 10
ST_IDLE == 0
ST_PXE == 1
ST_DHCP == 2
BOOTP_FLAGS_NONE == 0
BOOTP_DEFAULT_LEASE_TIME == 7200

\* the keys of the DHCP_OPTIONS table
DHCP_OPTIONS == (0..61) \cup (64..74) \cup {77, 93, 94, 97, 175, 255}

\* BOOTP_DEFAULT_BOOT_FILE = '\x00'
BOOTP_DEFAULT_BOOT_FILE == <<0>>
BOOTP_DEFAULT_DNS == "auto"

(* ------------------------- values of the model ------------------------ *)
\* Python's None, for values that are byte strings, addresses or numbers
None == <<-1>>
\* states has no entry for the MAC yet
NoEntry == -1

MACS == {"m1", "m2"}

ZeroIP == <<0, 0, 0, 0>>
ClientIP == <<10, 0, 0, 9>>
RelayIP == <<10, 0, 0, 5>>
HostIPa == <<10, 0, 0, 20>>
HostIPb == <<10, 0, 0, 21>>
\* netconfig of the bound interface
NetAddress == <<10, 0, 0, 1>>
NetMask == <<255, 255, 255, 0>>
\* the literal server address and netmask of the reply options
HardcodedServer == <<10, 40, 13, 161>>
HardcodedMask == <<255, 255, 255, 224>>

(* ----------------------- 32-bit words as bit vectors ------------------- *)
RECURSIVE ByteBits(_, _)
\* the n low bits of b, most significant first
ByteBits(b, n) == IF n = 0 THEN <<>> ELSE ByteBits(b \div 2, n - 1) \o <<b % 2>>

RECURSIVE BitsVal(_)
BitsVal(bits) ==
    IF bits = <<>> THEN 0
    ELSE 2 * BitsVal(SubSeq(bits, 1, Len(bits) - 1)) + bits[Len(bits)]

\* util.iptoint: dotted quad to a 32-bit word
iptoint(ip) == ByteBits(ip[1], 8) \o ByteBits(ip[2], 8) \o ByteBits(ip[3], 8) \o ByteBits(ip[4], 8)

\* util.inttoip: 32-bit word to dotted quad
inttoip(w) == <<BitsVal(SubSeq(w, 1, 8)), BitsVal(SubSeq(w, 9, 16)),
                BitsVal(SubSeq(w, 17, 24)), BitsVal(SubSeq(w, 25, 32))>>

BitAnd(a, b) == [i \in 1..32 |-> a[i] * b[i]]
BitOr(a, b) == [i \in 1..32 |-> IF a[i] + b[i] > 0 THEN 1 ELSE 0]
\* (~m) & ((1<<32)-1)
BitNot32(m) == [i \in 1..32 |-> 1 - m[i]]

\* reply_broadcast = iptoint(ip) & mask; reply_broadcast |= (~mask)&((1<<32)-1)
reply_broadcast(ip, netmask) ==
    LET mask == iptoint(netmask)
    IN  inttoip(BitOr(BitAnd(iptoint(ip), mask), BitNot32(mask)))

(* ------------------------------ option TLVs --------------------------- *)
\* struct.pack('!BB%ds' % len(v), tag, len(v), v)
TLV(tag, value) == <<tag, Len(value)>> \o value

\* a dict assignment that keeps the value of a key already present
DictSet_KeepFirst(d, k, v) ==
    [t \in (DOMAIN d) \cup {k} |-> IF t \in DOMAIN d THEN d[t] ELSE v]

\* dict assignment d[k] = v
DictSet(d, k, v) == [t \in (DOMAIN d) \cup {k} |-> IF t = k THEN v ELSE d[t]]
EmptyDict == [t \in {} |-> <<>>]

RECURSIVE parse_loop(_, _)
\* the while loop of parse_options: the result is the returned dict ("ok"),
\* None ("none"), an exception ("raise") or no result at all ("hang")
parse_loop(tail, dhcp_tags) ==
    IF tail = <<>> THEN [kind |-> "none", tags |-> EmptyDict, exc |-> ""]
    ELSE LET tag == tail[1] IN
         IF tag = 0 THEN [kind |-> "hang", tags |-> EmptyDict, exc |-> ""]
         ELSE IF tag = 255 THEN [kind |-> "ok", tags |-> dhcp_tags, exc |-> ""]
         ELSE IF Len(tail) < 2
              THEN [kind |-> "raise", tags |-> EmptyDict, exc |-> "IndexError"]
         ELSE LET length == tail[2] IN
              IF Len(tail) - 2 < length
              THEN [kind |-> "raise", tags |-> EmptyDict, exc |-> "struct.error"]
              ELSE LET value == SubSeq(tail, 3, 2 + length)
                       rest == SubSeq(tail, 3 + length, Len(tail))
                   IN  IF tag \notin DHCP_OPTIONS
                       THEN [kind |-> "none", tags |-> EmptyDict, exc |-> ""]
                       ELSE parse_loop(rest, DictSet(dhcp_tags, tag, value))

parse_options(tail) == parse_loop(tail, EmptyDict)

(* ------------------------------ configuration ------------------------- *)
\* bootp_leases entries: a MAC not in the section has present = FALSE; an
\* entry without (or with an empty) 'hostname' has hostname = <<>>; an entry
\* without the 'boot_file' key has boot_file = None
NoLease == [present |-> FALSE, hostname |-> <<>>, boot_file |-> None]
Lease(h, f) == [present |-> TRUE, hostname |-> h, boot_file |-> f]
HostA == <<"hosta", "example", "com">>
HostB == <<"hostb", "example", "com">>
BootFile == <<112, 120, 101>>

LeaseConfigs ==
    { [m \in MACS |-> IF m = "m1" THEN Lease(HostA, BootFile) ELSE Lease(HostB, <<>>)],
      [m \in MACS |-> IF m = "m1" THEN Lease(HostA, None) ELSE NoLease],
      [m \in MACS |-> IF m = "m1" THEN Lease(<<>>, BootFile) ELSE NoLease] }

\* values of bootp.allow_simple_dhcp in the YAML file ("unset": key absent)
SimpleDhcpValues == {"unset", "false", "true"}

Configs == [allow_simple_dhcp : SimpleDhcpValues, leases : LeaseConfigs]

\* PyBootdConfig.get_bootp_allow_simple_dhcp: the value, or None
get_bootp_allow_simple_dhcp(cfg) == cfg.allow_simple_dhcp

\* util.to_bool of a YAML boolean
to_bool(v) == v = "true"

\* simple_dhcp that ignores the configured value
simple_dhcp_Off(cfg) == FALSE

\* sdhcp and to_bool(sdhcp)
simple_dhcp(cfg) ==
    LET sdhcp == get_bootp_allow_simple_dhcp(cfg)
    IN  sdhcp \notin {"unset", "false"} /\ to_bool(sdhcp)

\* PyBootdConfig.get_lease_for_mac
get_lease_for_mac(cfg, mac) == cfg.leases[mac]

\* PyBootdConfig.get_bootp_default_boot_file, key not configured
get_bootp_default_boot_file == BOOTP_DEFAULT_BOOT_FILE

\* PyBootdConfig.get_bootp_default_dns, key not configured
get_bootp_default_dns == BOOTP_DEFAULT_DNS

\* PyBootdConfig.get_bootp_default_lease_time, key not configured
get_bootp_default_lease_time == BOOTP_DEFAULT_LEASE_TIME

\* BootpServer.get_dns_server with no nameserver line in /etc/resolv.conf
get_dns_server == None

(* ------------------------------- datagrams ---------------------------- *)
Uuid(u) == [i \in 1..16 |-> u]
UuidValues == {1, 2}
\* 'PXE:A'
ClassId == <<80, 88, 69, 58, 65>>
Opt53(m) == TLV(DHCP_MSG, <<m>>)
Opt97(u) == TLV(97, <<0>> \o Uuid(u))
Opt60 == TLV(60, ClassId)
EndTag == <<DHCP_END>>

\* message types sent by the clients: Discover, Request, Decline, Release,
\* Inform and one the server does not manage (Offer)
MsgTypes == {DHCP_DISCOVER, DHCP_REQUEST, DHCP_DECLINE, DHCP_RELEASE, DHCP_INFORM, DHCP_OFFER}

PlainTails == {Opt53(m) \o EndTag : m \in MsgTypes} \cup {EndTag}
PxeTails ==
    {Opt53(m) \o Opt97(1) \o Opt60 \o EndTag : m \in MsgTypes}
    \cup {Opt53(m) \o Opt97(2) \o Opt60 \o EndTag : m \in {DHCP_DISCOVER, DHCP_REQUEST}}
    \cup {Opt97(1) \o Opt60 \o EndTag}
PxeNo60Tails == {Opt53(m) \o Opt97(1) \o EndTag : m \in {DHCP_DISCOVER, DHCP_REQUEST}}
OddTails ==
    { <<0>> \o Opt53(DHCP_DISCOVER) \o EndTag,                       \* padding first
      Opt53(DHCP_DISCOVER) \o <<0>> \o EndTag,                       \* padding inside
      Opt53(DHCP_DISCOVER),                                          \* no end tag
      <<>>,                                                          \* no option area
      Opt53(DHCP_DISCOVER) \o TLV(200, <<1>>) \o EndTag,             \* unknown tag last
      TLV(200, <<1>>) \o Opt53(DHCP_DISCOVER) \o EndTag,             \* unknown tag first
      Opt53(DHCP_DISCOVER) \o EndTag \o <<9, 9>>,                    \* bytes after the end
      Opt53(DHCP_DISCOVER) \o TLV(97, Uuid(1)) \o Opt60 \o EndTag,   \* 16-byte option 97
      TLV(DHCP_MSG, <<>>) \o EndTag,                                 \* empty option 53
      <<DHCP_MSG>>,                                                  \* tag without length
      <<DHCP_MSG, 4, 1>>,                                            \* value cut short
      <<0>> \o TLV(200, <<1>>) \o EndTag }                           \* padding, unknown tag
Tails == PlainTails \cup PxeTails \cup PxeNo60Tails \cup OddTails

\* a received datagram: short is len(data) < DHCPFormatSize; the other
\* fields are the unpacked fixed header, the option area and the sender
Dgram(mac, ci, gi, tail) ==
    [short |-> FALSE, op |-> BOOTREQUEST, chaddr |-> mac, ciaddr |-> ci, giaddr |-> gi,
     tail |-> tail, sender |-> <<ZeroIP, 68>>]

\* the option areas sent with a client address or through a relay
CommonTails ==
    {Opt53(m) \o EndTag : m \in {DHCP_DISCOVER, DHCP_REQUEST}}
    \cup {Opt53(m) \o Opt97(1) \o Opt60 \o EndTag : m \in {DHCP_DISCOVER, DHCP_REQUEST}}

\* m1 sends every option area, m2 the common ones
Datagrams ==
    {Dgram("m1", ZeroIP, ZeroIP, t) : t \in Tails}
    \cup {Dgram("m2", ZeroIP, ZeroIP, t) : t \in CommonTails}
    \cup {Dgram("m1", ClientIP, ZeroIP, t) : t \in CommonTails}
    \cup {Dgram("m1", ZeroIP, RelayIP, t) : t \in CommonTails}
    \cup {Dgram("m1", ClientIP, RelayIP, Opt53(DHCP_DISCOVER) \o Opt97(1) \o Opt60 \o EndTag)}
    \cup {[Dgram(mac, ZeroIP, ZeroIP, <<>>) EXCEPT !.short = TRUE] : mac \in MACS}
    \cup {[Dgram("m1", ZeroIP, ZeroIP, Opt53(DHCP_DISCOVER) \o EndTag) EXCEPT !.op = BOOTREPLY]}

\* results of socket.gethostbyname: an address, or None when it raises
ResolverResults == {HostIPa, HostIPb, None}
NotCalled == <<>>

(* ------------------------------ host data ----------------------------- *)
\* BootpServer.get_host_data_for_mac(mac_str), r being what gethostbyname
\* gives when it is called. kind: "data" (hostdata returned), "none" (a bare
\* return) or "raise" (TypeError on a MAC without lease entry, KeyError on an
\* entry without boot_file); called: gethostbyname was called
get_host_data_for_mac(cfg, mac_str, r) ==
    LET host_lease_data == get_lease_for_mac(cfg, mac_str)
        nodata == [kind |-> "none", exc |-> "", called |-> FALSE, address |-> None,
                   hostname |-> <<>>, domain |-> <<>>, boot_file |-> None]
    IN  IF ~host_lease_data.present
        THEN [nodata EXCEPT !.kind = "raise", !.exc = "TypeError"]
        ELSE IF host_lease_data.hostname = <<>> THEN nodata
        ELSE IF r = None THEN [nodata EXCEPT !.called = TRUE]
        ELSE IF host_lease_data.boot_file = None
             THEN [nodata EXCEPT !.kind = "raise", !.exc = "KeyError", !.called = TRUE]
        ELSE [kind |-> "data", exc |-> "", called |-> TRUE, address |-> r,
              hostname |-> host_lease_data.hostname,
              domain |-> Tail(host_lease_data.hostname),
              boot_file |-> host_lease_data.boot_file]

\* gethostbyname is reached only for a lease entry that has a hostname
NeedsResolver(cfg, mac_str) ==
    LET l == get_lease_for_mac(cfg, mac_str) IN l.present /\ l.hostname # <<>>

(* ----------------------------- option builders ------------------------ *)
RECURSIVE Find(_, _, _)
\* str.find: offset of the first c in s from position i on, or -1
Find(s, c, i) ==
    IF i > Len(s) THEN -1 ELSE IF s[i] = c THEN i - 1 ELSE Find(s, c, i + 1)

\* s[:k] of Python, k may be negative
SliceTo(s, k) ==
    IF k >= 0 THEN SubSeq(s, 1, IF k > Len(s) THEN Len(s) ELSE k)
    ELSE SubSeq(s, 1, IF Len(s) + k < 0 THEN 0 ELSE Len(s) + k)

\* 'Python'
srvstr == <<80, 121, 116, 104, 111, 110>>
\* 'Stupid PXE'
prompt == <<83, 116, 117, 112, 105, 100, 32, 80, 88, 69>>

\* a builder that answers without option 60: the UUID option and the end
build_pxe_options_No60(options, server) ==
    IF 97 \notin DOMAIN options THEN None
    ELSE TLV(97, options[97]) \o <<255, 0, 0>>

\* BootpServer.build_pxe_options(options, server): the bytes, or None when a
\* KeyError is caught
build_pxe_options(options, server) ==
    IF 97 \notin DOMAIN options \/ 60 \notin DOMAIN options THEN None
    ELSE LET uuid == options[97]
             clientclass == SliceTo(options[60], Find(options[60], 58, 1))
             vendor == <<PXE_DISCOVERY_CONTROL, 1, 10>>
                       \o <<PXE_BOOT_SERVERS, 2 + 1 + 4, 0, 0, 1>> \o server
                       \o <<PXE_BOOT_MENU, 2 + 1 + Len(srvstr), 0, 0, Len(srvstr)>> \o srvstr
                       \o <<PXE_MENU_PROMPT, 1 + Len(prompt), Len(prompt)>> \o prompt
         IN  TLV(97, uuid) \o TLV(60, clientclass) \o TLV(43, vendor) \o <<255, 0, 0>>

\* BootpServer.build_dhcp_options(clientname)
build_dhcp_options(clientname) ==
    IF clientname = <<>> THEN <<>> ELSE TLV(12, clientname)

\* struct.pack('!I', n)
Pack32(n) == <<(n \div 16777216) % 256, (n \div 65536) % 256, (n \div 256) % 256, n % 256>>

\* the option bytes handle packs after the fixed header, up to DHCP_END
StandardOptions(dhcp_reply) ==
    LET server == HardcodedServer
        dns0 == get_bootp_default_dns
        dns == IF dns0 = "auto"
               THEN (IF get_dns_server # None THEN get_dns_server ELSE server)
               ELSE None
    IN  <<DHCP_MSG, 1, dhcp_reply>>
        \o TLV(DHCP_SERVER, server)
        \o TLV(DHCP_IP_MASK, HardcodedMask)
        \o TLV(DHCP_IP_GATEWAY, server)
        \o (IF dns # None THEN TLV(DHCP_IP_DNS, dns) ELSE <<>>)
        \o <<DHCP_LEASE_TIME, 4>> \o Pack32(get_bootp_default_lease_time)
        \o <<DHCP_END, 0>>

(* ------------------------------- handle -------------------------------- *)
\* dhcp_msg_type when option 53 is absent (Python's None)
MsgNone == -1

\* dhcp_msg_type = ord(options[53][0]), None on KeyError
MsgTypeOf(options) == IF DHCP_MSG \in DOMAIN options THEN options[DHCP_MSG][1] ELSE MsgNone

\* pxe: 97 in options and len(options[97]) == 17
PxeOf(options) == 97 \in DOMAIN options /\ Len(options[97]) = 17

\* self.states.setdefault(mac_str, self.ST_IDLE): the value read
CurrentState(st, mac_str) == IF st[mac_str] = NoEntry THEN ST_IDLE ELSE st[mac_str]

\* NextState with the Idle test on pxe alone
NextState_IdlePxeAnyType(currentstate, pxe, dhcp_msg_type) ==
    IF currentstate = ST_IDLE
    THEN (IF pxe THEN ST_PXE ELSE currentstate)
    ELSE IF currentstate = ST_PXE
    THEN (IF ~pxe /\ dhcp_msg_type = DHCP_REQUEST THEN ST_DHCP ELSE currentstate)
    ELSE (IF pxe THEN ST_PXE ELSE currentstate)

\* NextState without the restart branch of ST_DHCP
NextState_DhcpSticky(currentstate, pxe, dhcp_msg_type) ==
    IF currentstate = ST_IDLE
    THEN (IF pxe /\ dhcp_msg_type = DHCP_DISCOVER THEN ST_PXE ELSE currentstate)
    ELSE IF currentstate = ST_PXE
    THEN (IF ~pxe /\ dhcp_msg_type = DHCP_REQUEST THEN ST_DHCP ELSE currentstate)
    ELSE currentstate

\* a state machine that enters Dhcp from Idle on a non-PXE Request
NextState_IdleToDhcp(currentstate, pxe, dhcp_msg_type) ==
    IF currentstate = ST_IDLE
    THEN (IF pxe /\ dhcp_msg_type = DHCP_DISCOVER THEN ST_PXE
          ELSE IF ~pxe /\ dhcp_msg_type = DHCP_REQUEST THEN ST_DHCP ELSE currentstate)
    ELSE IF currentstate = ST_PXE
    THEN (IF ~pxe /\ dhcp_msg_type = DHCP_REQUEST THEN ST_DHCP ELSE currentstate)
    ELSE (IF pxe THEN ST_PXE ELSE currentstate)

\* the "basic state machine" of handle
NextState(currentstate, pxe, dhcp_msg_type) ==
    IF currentstate = ST_IDLE
    THEN (IF pxe /\ dhcp_msg_type = DHCP_DISCOVER THEN ST_PXE ELSE currentstate)
    ELSE IF currentstate = ST_PXE
    THEN (IF ~pxe /\ dhcp_msg_type = DHCP_REQUEST THEN ST_DHCP ELSE currentstate)
    ELSE (IF pxe THEN ST_PXE ELSE currentstate)

\* DroppedAsIdle with the return left out
DroppedAsIdle_Never(newstate, cfg) == FALSE

\* "if the state has not evolved from idle, there is nothing to do"
DroppedAsIdle(newstate, cfg) == newstate = ST_IDLE /\ ~simple_dhcp(cfg)

\* PoolAfter that stores the freshly resolved address every time
PoolAfter_Overwrite(pool, mac_str, ipaddr) == [pool EXCEPT ![mac_str] = ipaddr]

\* a lease map that is not keyed by MAC: the address goes to every MAC
\* without lease
PoolAfter_AnyMac(pool, mac_str, ipaddr) ==
    IF pool[mac_str] # None THEN pool
    ELSE [m \in DOMAIN pool |-> IF pool[m] = None THEN ipaddr ELSE pool[m]]

\* the lease lookup of handle: an existing lease is kept, else ipaddr is stored
PoolAfter(pool, mac_str, ipaddr) ==
    IF pool[mac_str] # None THEN pool ELSE [pool EXCEPT ![mac_str] = ipaddr]

\* ReplyDecision that acknowledges DHCP_INFORM
ReplyDecision_InformAck(dhcp_msg_type) ==
    IF dhcp_msg_type = MsgNone \/ dhcp_msg_type = 0
    THEN [act |-> "return", at |-> "414", dhcp_reply |-> 0]
    ELSE IF dhcp_msg_type = DHCP_DISCOVER
    THEN [act |-> "reply", at |-> "", dhcp_reply |-> DHCP_OFFER]
    ELSE IF dhcp_msg_type = DHCP_REQUEST \/ dhcp_msg_type = DHCP_INFORM
    THEN [act |-> "reply", at |-> "", dhcp_reply |-> DHCP_ACK]
    ELSE IF dhcp_msg_type = DHCP_RELEASE
    THEN [act |-> "raise", at |-> "AttributeError", dhcp_reply |-> 0]
    ELSE [act |-> "return", at |-> "437", dhcp_reply |-> 0]

\* the message-type dispatch of handle; self.notify is defined nowhere, so
\* the DHCP_RELEASE branch raises AttributeError
ReplyDecision(dhcp_msg_type) ==
    IF dhcp_msg_type = MsgNone \/ dhcp_msg_type = 0
    THEN [act |-> "return", at |-> "414", dhcp_reply |-> 0]
    ELSE IF dhcp_msg_type = DHCP_DISCOVER
    THEN [act |-> "reply", at |-> "", dhcp_reply |-> DHCP_OFFER]
    ELSE IF dhcp_msg_type = DHCP_REQUEST
    THEN [act |-> "reply", at |-> "", dhcp_reply |-> DHCP_ACK]
    ELSE IF dhcp_msg_type = DHCP_RELEASE
    THEN [act |-> "raise", at |-> "AttributeError", dhcp_reply |-> 0]
    ELSE IF dhcp_msg_type = DHCP_INFORM
    THEN [act |-> "return", at |-> "431", dhcp_reply |-> 0]
    ELSE IF dhcp_msg_type = DHCP_DECLINE
    THEN [act |-> "return", at |-> "434", dhcp_reply |-> 0]
    ELSE [act |-> "return", at |-> "437", dhcp_reply |-> 0]

\* truth value of a Python string
Truthy(str) == str # <<>>

\* SendTo that always answers to addr
SendTo_Addr(gi_addr, addr) == addr

\* "send the response": gi_addr is the 4-byte slice buf[BOOTP_GIADDR][:4]
SendTo(gi_addr, addr) == IF Truthy(gi_addr) THEN <<gi_addr, 67>> ELSE addr

\* the phase stored although sendto has raised
StatesAfterSend_BeforeSend(st, mac_str, currentstate, newstate, ok) ==
    IF currentstate # newstate THEN [st EXCEPT ![mac_str] = newstate] ELSE st

\* "update the current state", the last lines of handle: reached only when
\* sendto has returned (ok); a sendto that raises leaves handle before them
StatesAfterSend(st, mac_str, currentstate, newstate, ok) ==
    IF ok /\ currentstate # newstate THEN [st EXCEPT ![mac_str] = newstate] ELSE st

NoReply ==
    [sent |-> FALSE, op |-> 0, secs |-> 0, flags |-> 0, yiaddr |-> ZeroIP, siaddr |-> ZeroIP,
     giaddr |-> ZeroIP, sname |-> <<>>, file |-> <<>>, dhcp_reply |-> 0, options |-> <<>>,
     dest |-> <<ZeroIP, 0>>]

NoDatagram ==
    [short |-> TRUE, op |-> 0, chaddr |-> "m1", ciaddr |-> ZeroIP, giaddr |-> ZeroIP,
     tail |-> <<>>, sender |-> <<ZeroIP, 0>>]

\* what has been observed so far: the MACs that sent a (PXE, Discover)
\* request, the MACs a reply was transmitted for, and whether forever has
\* logged an exception
HistoryAfter(d, pxe_discover, reply, outcome) ==
    [pxe_discover |-> IF pxe_discover THEN history.pxe_discover \cup {d.chaddr}
                      ELSE history.pxe_discover,
     replied |-> IF reply.sent THEN history.replied \cup {d.chaddr} ELSE history.replied,
     failed |-> history.failed \/ outcome = "raise"]

\* a handle that sends on both branches of "send the response"
Sends_Both(reply) == IF reply.sent THEN 2 ELSE 0

\* the sendto calls of one handle: "send the response" is an if/else with
\* one sendto in each branch, and nothing else in handle sends
Sends(reply) == IF reply.sent THEN 1 ELSE 0

\* an exception that leaves forever
AfterHandle_Propagate(outcome) == IF outcome = "raise" THEN "done" ELSE "select"

\* where forever goes on after handle: a return and an exception caught by
\* "except Exception" both lead back to the select of "while True"
AfterHandle(outcome) == "select"

\* the end of one handle call: outcome is "sent", "return" (request dropped)
\* or "raise" (an exception reaches forever, which logs it and goes on);
\* loc holds the locals currentstate, newstate, pxe and dhcp_msg_type
Finish(d, r, loc, outcome, at, reply, st, ip, uu) ==
    /\ states' = st
    /\ ippool' = ip
    /\ uuidpool' = uu
    /\ last' = [dgram |-> d, resolve |-> r, currentstate |-> loc[1], newstate |-> loc[2],
                pxe |-> loc[3], dhcp_msg_type |-> loc[4], outcome |-> outcome, at |-> at,
                reply |-> reply]
    /\ handled' = handled + 1
    /\ sent' = sent + Sends(reply)
    /\ history' = HistoryAfter(d, loc[3] /\ loc[4] = DHCP_DISCOVER, reply, outcome)
    /\ pc' = AfterHandle(outcome)
    /\ UNCHANGED <<config, parsing>>

NoLocals == <<NoEntry, NoEntry, FALSE, MsgNone>>

\* parse_options never returns: "if tag == 0: continue" leaves tail as it is
Hang(d) ==
    /\ last' = [dgram |-> d, resolve |-> NotCalled, currentstate |-> NoEntry,
                newstate |-> NoEntry, pxe |-> FALSE, dhcp_msg_type |-> MsgNone,
                outcome |-> "hang", at |-> "242", reply |-> NoReply]
    /\ handled' = handled + 1
    /\ pc' = "parse_options"
    /\ UNCHANGED <<states, ippool, uuidpool, config, sent, history, parsing>>

\* handle from "construct reply" on, for a request with all-zero ciaddr
HandleLease(d, options, r) ==
    LET mac_str == d.chaddr
        dhcp_msg_type == MsgTypeOf(options)
        pxe == PxeOf(options)
        uuid == IF pxe THEN SubSeq(options[97], 2, 17) ELSE uuidpool[mac_str]
        currentstate == CurrentState(states, mac_str)
        states1 == [states EXCEPT ![mac_str] = currentstate]
        newstate == NextState(currentstate, pxe, dhcp_msg_type)
        loc == <<currentstate, newstate, pxe, dhcp_msg_type>>
        host_data == get_host_data_for_mac(config, mac_str, r)
    IN  IF host_data.kind = "raise"
        THEN Finish(d, r, loc, "raise", host_data.exc, NoReply, states1, ippool, uuidpool)
        ELSE IF host_data.kind = "none"
        THEN Finish(d, r, loc, "raise", "TypeError", NoReply, states1, ippool, uuidpool)
        ELSE
        LET ipaddr == host_data.address
            ippool1 == PoolAfter(ippool, mac_str, ipaddr)
            ip == ippool1[mac_str]
            addr == <<reply_broadcast(ip, NetMask), d.sender[2]>>
            decision == ReplyDecision(dhcp_msg_type)
            file == IF host_data.boot_file # <<>> THEN host_data.boot_file
                    ELSE get_bootp_default_boot_file
            extra_buf == IF pxe THEN build_pxe_options(options, HardcodedServer)
                         ELSE build_dhcp_options(<<>>)
            uuidpool1 == IF pxe THEN [uuidpool EXCEPT ![mac_str] = uuid] ELSE uuidpool
            reply == [sent |-> TRUE, op |-> BOOTREPLY, secs |-> 0, flags |-> BOOTP_FLAGS_NONE,
                      yiaddr |-> ip, siaddr |-> NetAddress, giaddr |-> d.giaddr,
                      sname |-> host_data.hostname \o host_data.domain, file |-> file,
                      dhcp_reply |-> decision.dhcp_reply,
                      options |-> StandardOptions(decision.dhcp_reply) \o extra_buf,
                      dest |-> SendTo(d.giaddr, addr)]
        IN  IF decision.act # "reply"
            THEN Finish(d, r, loc, decision.act, decision.at, NoReply, states1, ippool1, uuidpool)
            ELSE IF pxe /\ extra_buf = None
            THEN Finish(d, r, loc, "return", "472", NoReply, states1, ippool1, uuidpool)
            ELSE \E ok \in BOOLEAN :
                   LET states2 == StatesAfterSend(states1, mac_str, currentstate, newstate, ok)
                   IN  IF ok
                       THEN Finish(d, r, loc, "sent", "", reply, states2, ippool1, uuidpool1)
                       ELSE Finish(d, r, loc, "raise", "socket.error", NoReply, states2,
                                   ippool1, uuidpool1)

\* handle from the option checks to the Idle policy and the ciaddr test; with
\* a non-zero ciaddr host_data is never bound and the sname line raises
HandleOptions(d, options) ==
    LET mac_str == d.chaddr
        dhcp_msg_type == MsgTypeOf(options)
        pxe == PxeOf(options)
        currentstate == CurrentState(states, mac_str)
        states1 == [states EXCEPT ![mac_str] = currentstate]
        newstate == NextState(currentstate, pxe, dhcp_msg_type)
        loc == <<currentstate, newstate, pxe, dhcp_msg_type>>
    IN  IF DHCP_MSG \in DOMAIN options /\ options[DHCP_MSG] = <<>>
        THEN Finish(d, NotCalled, NoLocals, "raise", "IndexError", NoReply, states, ippool,
                    uuidpool)
        ELSE IF DroppedAsIdle(newstate, config)
        THEN Finish(d, NotCalled, loc, "return", "363", NoReply, states1, ippool, uuidpool)
        ELSE IF d.ciaddr = ZeroIP
        THEN (IF NeedsResolver(config, mac_str)
              THEN \E r \in ResolverResults : HandleLease(d, options, r)
              ELSE HandleLease(d, options, NotCalled))
        ELSE Finish(d, NotCalled, loc, "raise", "UnboundLocalError", NoReply, states1, ippool,
                    uuidpool)

\* a handle without the test of the op field
handle_AnyOp(d) ==
    IF d.short
    THEN Finish(d, NotCalled, NoLocals, "raise", "struct.error", NoReply, states, ippool, uuidpool)
    ELSE LET parsed == parse_options(d.tail)
         IN  IF parsed.kind = "hang" THEN Hang(d)
             ELSE IF parsed.kind = "raise"
             THEN Finish(d, NotCalled, NoLocals, "raise", parsed.exc, NoReply, states, ippool,
                         uuidpool)
             ELSE IF parsed.kind = "none"
             THEN Finish(d, NotCalled, NoLocals, "return", "307", NoReply, states, ippool, uuidpool)
             ELSE HandleOptions(d, parsed.tags)

\* BootpServer.handle(sock, addr, data)
handle(d) ==
    IF d.short
    THEN Finish(d, NotCalled, NoLocals, "raise", "struct.error", NoReply, states, ippool, uuidpool)
    ELSE IF d.op # BOOTREQUEST
    THEN Finish(d, NotCalled, NoLocals, "return", "303", NoReply, states, ippool, uuidpool)
    ELSE LET parsed == parse_options(d.tail)
         IN  IF parsed.kind = "hang" THEN Hang(d)
             ELSE IF parsed.kind = "raise"
             THEN Finish(d, NotCalled, NoLocals, "raise", parsed.exc, NoReply, states, ippool,
                         uuidpool)
             ELSE IF parsed.kind = "none"
             THEN Finish(d, NotCalled, NoLocals, "return", "307", NoReply, states, ippool, uuidpool)
             ELSE HandleOptions(d, parsed.tags)

(* ------------------------------ the server ---------------------------- *)
\* parsing is used by ParseSpec only: the server does not touch it
NotParsed == [kind |-> "", tags |-> EmptyDict, exc |-> ""]
NoParsing == [options |-> <<>>, trailing |-> <<>>, result |-> NotParsed]

Init ==
    /\ states = [m \in MACS |-> NoEntry]
    /\ ippool = [m \in MACS |-> None]
    /\ uuidpool = [m \in MACS |-> None]
    /\ config \in Configs
    /\ pc = "select"
    /\ last = [dgram |-> NoDatagram, resolve |-> NotCalled, currentstate |-> NoEntry,
               newstate |-> NoEntry, pxe |-> FALSE, dhcp_msg_type |-> MsgNone,
               outcome |-> "init", at |-> "", reply |-> NoReply]
    /\ handled = 0
    /\ sent = 0
    /\ history = [pxe_discover |-> {}, replied |-> {}, failed |-> FALSE]
    /\ parsing = NoParsing

\* one turn of forever: a datagram is received and handled
Receive ==
    /\ pc = "select"
    /\ handled < MaxDatagrams
    /\ \E d \in Datagrams : handle(d)

\* parse_options spinning on a padding byte
ParseSpin ==
    /\ pc = "parse_options"
    /\ UNCHANGED vars

Next == Receive \/ ParseSpin

Spec == Init /\ [][Next]_vars

(* --------------------------- parse_options alone ---------------------- *)
\* option areas for parse_options: up to MaxOptions (tag, value) triples
\* with tags of DHCP_OPTIONS (0 is the padding byte and 255 the end tag, not
\* tags of triples), the end tag, and bytes after it
StreamTags == {12, DHCP_MSG, 60}
StreamValues == {<<>>, <<7>>, <<0, 255>>}
StreamOptions == UNION {[1..n -> StreamTags \X StreamValues] : n \in 0..MaxOptions}
TrailingBytes == {<<>>, <<0>>, <<255>>, <<200, 1, 1>>, <<DHCP_MSG, 4, 1>>}

RECURSIVE EncodeOptions(_)
\* the bytes of a sequence of (tag, value) triples
EncodeOptions(opts) ==
    IF opts = <<>> THEN <<>>
    ELSE TLV(opts[1][1], opts[1][2]) \o EncodeOptions(Tail(opts))

\* the option area handed to parse_options
StreamOf(p) == EncodeOptions(p.options) \o EndTag \o p.trailing

ParseInit ==
    /\ parsing \in [options : StreamOptions, trailing : TrailingBytes, result : {NotParsed}]
    /\ states = [m \in MACS |-> NoEntry]
    /\ ippool = [m \in MACS |-> None]
    /\ uuidpool = [m \in MACS |-> None]
    /\ config = [allow_simple_dhcp |-> "unset", leases |-> [m \in MACS |-> NoLease]]
    /\ pc = "select"
    /\ last = [dgram |-> NoDatagram, resolve |-> NotCalled, currentstate |-> NoEntry,
               newstate |-> NoEntry, pxe |-> FALSE, dhcp_msg_type |-> MsgNone,
               outcome |-> "init", at |-> "", reply |-> NoReply]
    /\ handled = 0
    /\ sent = 0
    /\ history = [pxe_discover |-> {}, replied |-> {}, failed |-> FALSE]

\* options = self.parse_options(tail)
ParseCall ==
    /\ parsing.result = NotParsed
    /\ parsing' = [parsing EXCEPT !.result = parse_options(StreamOf(parsing))]
    /\ UNCHANGED <<states, ippool, uuidpool, config, pc, last, handled, sent, history>>

ParseNext == ParseCall

ParseSpec == ParseInit /\ [][ParseNext]_vars

(* ------------------------------ properties ---------------------------- *)
Phase(m) == CurrentState(states, m)
FlagOff == config.allow_simple_dhcp \in {"unset", "false"}
AnsweredTypes == {DHCP_DISCOVER, DHCP_REQUEST}
\* the step handles one datagram
Handled == handled' = handled + 1
\* the datagram of the step got as far as the state machine of handle
Reached == last'.currentstate # NoEntry
\* the send of the step raised
SendFailed == last'.outcome = "raise" /\ last'.at = "socket.error"

RECURSIVE TagsOf(_)
\* the tags of the top-level TLVs of a reply option area (the end tag is
\* packed with a zero byte after it, as a TLV of length 0)
TagsOf(bytes) ==
    IF Len(bytes) < 2 THEN {}
    ELSE {bytes[1]} \cup TagsOf(SubSeq(bytes, 3 + bytes[2], Len(bytes)))

\* the transition table of the session phase for an answered request
ExpectedPhase(p, pxe, msg) ==
    IF p = ST_IDLE /\ pxe /\ msg = DHCP_DISCOVER THEN ST_PXE
    ELSE IF p = ST_PXE /\ ~pxe /\ msg = DHCP_REQUEST THEN ST_DHCP
    ELSE IF p = ST_DHCP /\ pxe /\ msg \in AnsweredTypes THEN ST_PXE
    ELSE p

\* C1 (as stated): a stored phase changes only for the MAC of an answered
\* request, and only by (Idle, PXE, Discover) -> Pxe, (Pxe, non-PXE, Request)
\* -> Dhcp or (Dhcp, PXE, Discover) -> Pxe.
C1_OnlyListedCombinations ==
    [][Handled =>
        \A m \in MACS :
            CurrentState(states', m) # Phase(m) =>
                /\ m = last'.dgram.chaddr
                /\ last'.outcome = "sent"
                /\ \/ Phase(m) = ST_IDLE /\ last'.pxe /\ last'.dhcp_msg_type = DHCP_DISCOVER
                      /\ CurrentState(states', m) = ST_PXE
                   \/ Phase(m) = ST_PXE /\ ~last'.pxe /\ last'.dhcp_msg_type = DHCP_REQUEST
                      /\ CurrentState(states', m) = ST_DHCP
                   \/ Phase(m) = ST_DHCP /\ last'.pxe /\ last'.dhcp_msg_type = DHCP_DISCOVER
                      /\ CurrentState(states', m) = ST_PXE]_vars

\* C1 (amended): a MAC without session is at Idle; an answered request moves
\* the phase of its MAC by (Idle, PXE, Discover) -> Pxe, (Pxe, non-PXE,
\* Request) -> Dhcp, (Dhcp, PXE, Discover or Request) -> Pxe; every other
\* combination, every unanswered request and every other MAC keep the phase.
C1_PhaseTransitions ==
    [][Handled =>
        \A m \in MACS :
            /\ states[m] = NoEntry => Phase(m) = ST_IDLE
            /\ CurrentState(states', m) =
                  IF m = last'.dgram.chaddr /\ last'.outcome = "sent"
                  THEN ExpectedPhase(Phase(m), last'.pxe, last'.dhcp_msg_type)
                  ELSE Phase(m)]_vars

\* an answered (PXE, Request) took a MAC from Dhcp back to Pxe
C1_Witness ==
    /\ last.outcome = "sent"
    /\ last.currentstate = ST_DHCP
    /\ last.pxe
    /\ last.dhcp_msg_type = DHCP_REQUEST
    /\ states[last.dgram.chaddr] = ST_PXE

\* C2 (as stated): at phase Dhcp a request with pxe_mode true, of any message
\* type, brings the stored phase to Pxe (the request has zero ciaddr, its
\* lease resolves, it carries option 60 and the send does not fail).
C2_DhcpPxeAnyType ==
    [][Handled /\ Reached /\ Phase(last'.dgram.chaddr) = ST_DHCP /\ last'.pxe
        /\ last'.dhcp_msg_type # MsgNone
        /\ last'.dgram.ciaddr = ZeroIP /\ last'.resolve \in {HostIPa, HostIPb}
        /\ ~SendFailed /\ last'.at # "472"
        => CurrentState(states', last'.dgram.chaddr) = ST_PXE]_vars

\* C2 (amended): at phase Dhcp a request with pxe_mode true brings the
\* stored phase to Pxe exactly when it is answered, which takes a Discover or
\* a Request; with any other message type the phase stays Dhcp.
C2_DhcpPxeAnswered ==
    [][Handled /\ Reached /\ Phase(last'.dgram.chaddr) = ST_DHCP /\ last'.pxe
        => /\ (CurrentState(states', last'.dgram.chaddr) = ST_PXE) <=> (last'.outcome = "sent")
           /\ last'.outcome = "sent" => last'.dhcp_msg_type \in AnsweredTypes
           /\ last'.dhcp_msg_type \notin AnsweredTypes
                 => CurrentState(states', last'.dgram.chaddr) = ST_DHCP
           /\ last'.newstate = ST_PXE]_vars

\* an answered (PXE, Discover) took a MAC from Dhcp back to Pxe
C2_Witness ==
    /\ last.outcome = "sent"
    /\ last.currentstate = ST_DHCP
    /\ last.pxe
    /\ last.dhcp_msg_type = DHCP_DISCOVER
    /\ states[last.dgram.chaddr] = ST_PXE

\* C3: with allow_simple_dhcp unset or false, a request whose next phase is
\* Idle gets no reply and leaves phase, lease and cached UUID of every MAC as
\* they were; and a MAC that never sent a (PXE, Discover) request has got no
\* reply and is at Idle.
C3_IdleDropped ==
    /\ [](FlagOff =>
            \A m \in MACS :
                m \notin history.pxe_discover => m \notin history.replied /\ Phase(m) = ST_IDLE)
    /\ [][Handled /\ Reached /\ FlagOff /\ Phase(last'.dgram.chaddr) = ST_IDLE
          /\ ~(last'.pxe /\ last'.dhcp_msg_type = DHCP_DISCOVER)
          => /\ ~last'.reply.sent
             /\ sent' = sent
             /\ \A m \in MACS : CurrentState(states', m) = Phase(m)
             /\ ippool' = ippool
             /\ uuidpool' = uuidpool]_vars

\* a request was dropped by the Idle policy after others had been handled
C3_Witness ==
    /\ FlagOff
    /\ last.outcome = "return"
    /\ last.at = "363"
    /\ last.newstate = ST_IDLE
    /\ handled >= 2
    /\ last.dgram.chaddr \notin history.replied

\* the lease entry of the MAC has a hostname and a boot_file key, so that
\* get_host_data_for_mac gives host data whenever the hostname resolves
ResolvableLease(m) ==
    /\ config.leases[m].present
    /\ config.leases[m].hostname # <<>>
    /\ config.leases[m].boot_file # None

\* gethostbyname raised in the step
ResolveFailed == last'.resolve = None /\ last'.outcome = "raise"

C5_ReplyDecision ==
    /\ last.reply.sent => last.dhcp_msg_type \in AnsweredTypes
    /\ last.reply.sent /\ last.dhcp_msg_type = DHCP_DISCOVER
          => /\ last.reply.dhcp_reply = DHCP_OFFER
             /\ SubSeq(last.reply.options, 1, 3) = <<DHCP_MSG, 1, DHCP_OFFER>>
    /\ last.reply.sent /\ last.dhcp_msg_type = DHCP_REQUEST
          => /\ last.reply.dhcp_reply = DHCP_ACK
             /\ SubSeq(last.reply.options, 1, 3) = <<DHCP_MSG, 1, DHCP_ACK>>
    /\ last.outcome = "sent" <=> last.reply.sent

\* a Request was answered with an Ack
C5_Witness ==
    /\ last.reply.sent
    /\ last.dhcp_msg_type = DHCP_REQUEST
    /\ last.reply.dhcp_reply = DHCP_ACK

\* C6: a reply to a request with zero ciaddr and zero giaddr goes to the
\* subnet broadcast address (ip AND mask) OR (NOT mask) of the leased address.
C6_BroadcastDestination ==
    last.reply.sent /\ last.dgram.ciaddr = ZeroIP /\ last.dgram.giaddr = ZeroIP
        => /\ last.reply.dest[1] = reply_broadcast(last.reply.yiaddr, NetMask)
           /\ last.reply.dest[1] # ZeroIP

\* C7: a reply to a request with non-zero giaddr goes to (giaddr, 67) and
\* carries that giaddr.
C7_RelayDestination ==
    last.reply.sent /\ last.dgram.giaddr # ZeroIP
        => /\ last.reply.dest = <<last.dgram.giaddr, BOOTP_PORT>>
           /\ last.reply.giaddr = last.dgram.giaddr

\* a relayed request was answered
C7_Witness ==
    /\ last.reply.sent
    /\ last.dgram.giaddr = RelayIP
    /\ last.reply.dest = <<RelayIP, 67>>

\* C8: a Discover or Request with non-zero ciaddr that passes the Idle policy
\* is answered with yiaddr = ciaddr, sent to ciaddr.
C8_ClientAddressAnswered ==
    /\ last.currentstate # NoEntry
    /\ last.dgram.ciaddr # ZeroIP
    /\ last.dhcp_msg_type \in AnsweredTypes
    /\ ~(last.newstate = ST_IDLE /\ FlagOff)
    /\ ~(last.outcome = "raise" /\ last.at = "socket.error")
    /\ last.at # "472"
    => /\ last.reply.sent
       /\ last.reply.yiaddr = last.dgram.ciaddr
       /\ last.reply.dest[1] = last.dgram.ciaddr

\* C9: the first zero-ciaddr request of a MAC is offered the resolved
\* address; a later one is answered with the recorded lease without calling
\* the resolver again.
C9_LeaseReusedWithoutResolving ==
    [][Handled /\ Reached /\ last'.dgram.ciaddr = ZeroIP
        /\ last'.dhcp_msg_type \in AnsweredTypes
        /\ ~(last'.newstate = ST_IDLE /\ FlagOff)
        /\ ~SendFailed /\ last'.at # "472"
        => IF ippool[last'.dgram.chaddr] = None
           THEN last'.reply.sent => last'.reply.yiaddr = last'.resolve
           ELSE /\ last'.resolve = NotCalled
                /\ last'.reply.sent
                /\ last'.reply.yiaddr = ippool[last'.dgram.chaddr]]_vars

\* C10: a recorded lease never changes and is never removed, and a reply to
\* a zero-ciaddr request of a MAC with a lease offers the recorded address.
C10_LeaseImmutable ==
    [][/\ \A m \in MACS : ippool[m] # None => ippool'[m] = ippool[m]
       /\ Handled /\ last'.reply.sent /\ last'.dgram.ciaddr = ZeroIP
          => /\ last'.reply.yiaddr = ippool'[last'.dgram.chaddr]
             /\ ippool[last'.dgram.chaddr] # None
                   => last'.reply.yiaddr = ippool[last'.dgram.chaddr]]_vars

\* a request was answered with the recorded lease although the resolver
\* now gives another address
C10_Witness ==
    /\ last.reply.sent
    /\ last.dgram.ciaddr = ZeroIP
    /\ last.resolve \in {HostIPa, HostIPb}
    /\ last.resolve # ippool[last.dgram.chaddr]
    /\ last.reply.yiaddr = ippool[last.dgram.chaddr]

\* C11: the stored phase of a MAC changes only in a step that transmits a
\* reply, and then to the phase the state machine computed; a request dropped
\* after the state machine computed another phase, and a request whose send
\* fails, leave the stored phase of every MAC as it was.
C11_PhaseCommittedAfterSend ==
    [][Handled =>
        /\ \A m \in MACS :
              CurrentState(states', m) # Phase(m)
                  => /\ last'.outcome = "sent"
                     /\ m = last'.dgram.chaddr
                     /\ CurrentState(states', m) = last'.newstate
        /\ last'.outcome # "sent"
              => \A m \in MACS : CurrentState(states', m) = Phase(m)
        /\ last'.outcome = "sent"
              => CurrentState(states', last'.dgram.chaddr) = last'.newstate]_vars

\* the send of a reply failed after the state machine had computed another
\* phase, and the stored phase is still the one before the request
C11_Witness ==
    /\ last.outcome = "raise"
    /\ last.at = "socket.error"
    /\ last.newstate # last.currentstate
    /\ states[last.dgram.chaddr] = last.currentstate

\* C12: the cached UUID of a MAC changes only in a step that handles a
\* PXE-mode request of that MAC and transmits its reply; when the send fails
\* or the request is dropped the cache is as it was.
C12_UuidCachedOnSuccess ==
    [][Handled =>
        \A m \in MACS :
            uuidpool'[m] # uuidpool[m]
                => /\ last'.outcome = "sent"
                   /\ last'.pxe
                   /\ m = last'.dgram.chaddr]_vars

\* C13: the handling of every received datagram ends, with a reply
\* transmitted, the request dropped or an exception logged, and the server is
\* back at waiting for the next datagram; option areas with the padding tag 0
\* and option areas without the end tag 255 included.
C13_HandleTerminates ==
    /\ pc = "select"
    /\ last.outcome \in {"init", "sent", "return", "raise"}

RECURSIVE UnknownBeforeEnd(_, _)
\* the option area, read as padding bytes and complete (tag, length, value)
\* triples, reaches the end tag after a triple whose tag is outside
\* DHCP_OPTIONS (seen: such a triple has been passed)
UnknownBeforeEnd(bytes, seen) ==
    IF bytes = <<>> THEN FALSE
    ELSE IF bytes[1] = 0 THEN UnknownBeforeEnd(Tail(bytes), seen)
    ELSE IF bytes[1] = DHCP_END THEN seen
    ELSE IF Len(bytes) < 2 \/ Len(bytes) - 2 < bytes[2] THEN FALSE
    ELSE UnknownBeforeEnd(SubSeq(bytes, 3 + bytes[2], Len(bytes)),
                          seen \/ bytes[1] \notin DHCP_OPTIONS)

\* C14: a request whose option area holds a tag outside the option table
\* before the end tag is dropped by the parse check of handle (parse_options
\* returns None), wherever the tag sits: no reply is transmitted and the
\* phase, lease and UUID maps are unchanged.
C14_UnknownTagDropped ==
    [][Handled /\ ~last'.dgram.short /\ last'.dgram.op = BOOTREQUEST
        /\ UnknownBeforeEnd(last'.dgram.tail, FALSE)
        => /\ last'.outcome = "return"
           /\ last'.at = "307"
           /\ pc' = "select"
           /\ ~last'.reply.sent
           /\ sent' = sent
           /\ states' = states
           /\ ippool' = ippool
           /\ uuidpool' = uuidpool]_vars

\* the positions of the triples with the given tag
PositionsOf(opts, tag) == {i \in 1..Len(opts) : opts[i][1] = tag}
\* the largest element of a non-empty set of positions
LastOf(S) == CHOOSE i \in S : \A j \in S : j <= i

\* C15: for an option area made of triples with known tags followed by the
\* end tag, parse_options returns a dict whose keys are exactly the tags of
\* the triples, each with the value of the last triple carrying it; the
\* result is the one for the same area without the bytes after the end tag.
C15_ParseExactTags ==
    parsing.result # NotParsed =>
        /\ parsing.result.kind = "ok"
        /\ DOMAIN parsing.result.tags = {parsing.options[i][1] : i \in 1..Len(parsing.options)}
        /\ \A tag \in DOMAIN parsing.result.tags :
              parsing.result.tags[tag] =
                  parsing.options[LastOf(PositionsOf(parsing.options, tag))][2]
        /\ parsing.result = parse_options(EncodeOptions(parsing.options) \o EndTag)

\* an area with one tag in two triples of different values, and bytes after
\* the end tag, has been parsed
C15_Witness ==
    /\ parsing.result.kind = "ok"
    /\ Len(parsing.options) = 3
    /\ parsing.options[1][1] = parsing.options[3][1]
    /\ parsing.options[1][2] # parsing.options[3][2]
    /\ parsing.trailing = <<200, 1, 1>>

\* C16: a request in PXE mode (17-byte option 97) without option 60 gets no
\* reply, and the phase and the cached UUID of every MAC stay as they were.
C16_PxeWithoutClassIdDropped ==
    [][Handled /\ last'.pxe /\ 60 \notin DOMAIN parse_options(last'.dgram.tail).tags
        => /\ ~last'.reply.sent
           /\ last'.outcome # "sent"
           /\ sent' = sent
           /\ \A m \in MACS : CurrentState(states', m) = Phase(m)
           /\ uuidpool' = uuidpool]_vars

\* a PXE Discover without option 60 got as far as the option builder, after
\* the state machine had computed another phase, and was dropped there
C16_Witness ==
    /\ last.outcome = "return"
    /\ last.at = "472"
    /\ last.pxe
    /\ last.dhcp_msg_type = DHCP_DISCOVER
    /\ last.newstate # last.currentstate
    /\ states[last.dgram.chaddr] = last.currentstate
    /\ uuidpool[last.dgram.chaddr] = None

RECURSIVE AfterEnd(_)
\* the bytes of an option area that follow its first end tag in tag
\* position (padding bytes skipped); None when there is no such tag
AfterEnd(bytes) ==
    IF bytes = <<>> THEN None
    ELSE IF bytes[1] = DHCP_END THEN Tail(bytes)
    ELSE IF bytes[1] = 0 THEN AfterEnd(Tail(bytes))
    ELSE IF Len(bytes) < 2 THEN None
    ELSE AfterEnd(SubSeq(bytes, 3 + bytes[2], Len(bytes)))

\* C17: in a transmitted reply the first end tag in tag position closes the
\* option area: every option is before it and only padding follows it.
C17_EndTagClosesOptions ==
    last.reply.sent =>
        /\ AfterEnd(last.reply.options) # None
        /\ \A i \in DOMAIN AfterEnd(last.reply.options) : AfterEnd(last.reply.options)[i] = 0

\* C18: an exception raised while a datagram is received and handled (an
\* undersized datagram, a MAC without resolvable lease, a failing send) is
\* caught by forever: the server is back at select, and the next datagram is
\* received and handled from there.
C18_FailureKeepsServing ==
    /\ [](last.outcome = "raise" => pc = "select")
    /\ [](last.outcome = "raise" /\ handled < MaxDatagrams => ENABLED Receive)
    /\ [][Handled /\ last'.outcome = "raise" => pc' = "select" /\ history'.failed]_vars

\* a reply was transmitted after an exception had been logged for an
\* earlier datagram
C18_Witness ==
    /\ history.failed
    /\ last.outcome = "sent"
    /\ last.reply.sent
    /\ pc = "select"

\* C19: one handled datagram leads to at most one transmitted datagram: the
\* number of replies never exceeds the number of datagrams handled, a step
\* raises it by at most one, and only the step that handles a datagram and
\* transmits its reply raises it.
C19_AtMostOneReply ==
    /\ [](sent <= handled)
    /\ [][/\ sent' \in {sent, sent + 1}
          /\ sent' = sent + 1 <=> Handled /\ last'.reply.sent]_vars

\* three datagrams were handled and two of them answered
C19_Witness ==
    /\ handled = 3
    /\ sent = 2
    /\ last.reply.sent

\* C20: a datagram smaller than the fixed record, or with an op field other
\* than BOOTREQUEST, gets no reply and leaves the session, lease and UUID
\* maps exactly as they were, without a new session entry.
C20_MalformedRejected ==
    [][Handled /\ (last'.dgram.short \/ last'.dgram.op # BOOTREQUEST)
        => /\ ~last'.reply.sent
           /\ last'.outcome \in {"raise", "return"}
           /\ sent' = sent
           /\ states' = states
           /\ ippool' = ippool
           /\ uuidpool' = uuidpool
           /\ pc' = "select"]_vars

\* an undersized datagram of a MAC without session was rejected after
\* another MAC had got a session, and the first MAC still has no entry
C20_Witness ==
    /\ last.dgram.short
    /\ last.outcome = "raise"
    /\ last.at = "struct.error"
    /\ states[last.dgram.chaddr] = NoEntry
    /\ \E m \in MACS : states[m] # NoEntry

\* C21: a Discover or Request with zero ciaddr that passes the Idle policy,
\* from a MAC whose lease has a hostname that resolves, is answered (unless
\* the option builder or the send fails); the file field of the reply is the
\* boot file of the lease, or the default boot file when the lease has none.
C21_BootFileOrDefault ==
    [][Handled /\ Reached /\ last'.dgram.ciaddr = ZeroIP
        /\ last'.dhcp_msg_type \in AnsweredTypes
        /\ ~(last'.newstate = ST_IDLE /\ FlagOff)
        /\ config.leases[last'.dgram.chaddr].present
        /\ config.leases[last'.dgram.chaddr].hostname # <<>>
        /\ last'.resolve \in {HostIPa, HostIPb}
        /\ ~SendFailed /\ last'.at # "472"
        => /\ last'.reply.sent
           /\ last'.reply.file =
                 (IF config.leases[last'.dgram.chaddr].boot_file \in {None, <<>>}
                  THEN get_bootp_default_boot_file
                  ELSE config.leases[last'.dgram.chaddr].boot_file)]_vars

\* C22: a reply to a non-PXE request of a MAC whose lease has a hostname
\* carries option 12 with that hostname and no option 43; a reply to a PXE
\* request carries option 43 and no option 12.
C22_HostnameOrVendorOption ==
    last.reply.sent =>
        IF last.pxe
        THEN 43 \in TagsOf(last.reply.options) /\ 12 \notin TagsOf(last.reply.options)
        ELSE /\ 43 \notin TagsOf(last.reply.options)
             /\ config.leases[last.dgram.chaddr].hostname # <<>>
                   => 12 \in TagsOf(last.reply.options)

\* C23: a request that ends without a transmitted reply for want of a
\* message type, as Inform, Decline, Release or unmanaged type, or by the
\* failure of the PXE option builder, leaves the lease map as it was.
C23_NoLeaseWithoutReply ==
    [][Handled /\ ~last'.reply.sent
        /\ last'.at \in {"414", "431", "434", "437", "AttributeError", "472"}
        => ippool' = ippool]_vars

\* C24: the stored phase of a MAC that is at Pxe or Dhcp never becomes Idle
\* again, its session entry is never removed, and a MAC enters Dhcp only
\* from Pxe.
C24_IdleOnlyInitial ==
    [][\A m \in MACS :
          /\ Phase(m) # ST_IDLE => CurrentState(states', m) # ST_IDLE
          /\ states[m] # NoEntry => states'[m] # NoEntry
          /\ CurrentState(states', m) = ST_DHCP /\ Phase(m) # ST_DHCP
                => Phase(m) = ST_PXE]_vars

\* a MAC that went from Idle to Pxe to Dhcp got a further non-PXE request
\* and is still at Dhcp
C24_Witness ==
    /\ handled = 3
    /\ last.currentstate = ST_DHCP
    /\ ~last.pxe
    /\ last.outcome = "sent"
    /\ states[last.dgram.chaddr] = ST_DHCP

\* C25: handling a datagram of one MAC, answered or not, leaves the session
\* entry, the lease and the cached UUID of every other MAC as they were.
C25_SessionsIndependent ==
    [][Handled =>
        \A m \in MACS \ {last'.dgram.chaddr} :
            /\ states'[m] = states[m]
            /\ ippool'[m] = ippool[m]
            /\ uuidpool'[m] = uuidpool[m]]_vars

\* a request of m2 was answered and gave m2 its session, lease and UUID,
\* while m1 is still at Pxe with its own lease and UUID
C25_Witness ==
    /\ last.dgram.chaddr = "m2"
    /\ last.outcome = "sent"
    /\ last.pxe
    /\ states["m2"] = ST_PXE
    /\ states["m1"] = ST_PXE
    /\ ippool["m1"] # None
    /\ ippool["m2"] # None
    /\ uuidpool["m1"] # None
    /\ uuidpool["m2"] # None

====
